---- MODULE Spec2Model ----
(***************************************************************************)
(* Model of binja (src/main.go): an interactive tool that reads a list of  *)
(* file paths and a byte pattern, then scans every file in chunks and      *)
(* prints the absolute offset of every occurrence of the pattern found     *)
(* inside one chunk.                                                       *)
(*                                                                         *)
(* Text is a sequence of one-character strings; a byte is a number in      *)
(* 0..255.  The console output is the sequence `log' of events             *)
(* <<kind, file index, offset>>.                                           *)
(***************************************************************************)
EXTENDS Integers, Sequences, FiniteSets

(***************************************************************************)
(* Bounds of the model.                                                    *)
(***************************************************************************)
\* most files typed at the first prompt
MaxFiles == 2
\* most bytes a file returns before it reports end-of-stream
MaxFileLen == 3
\* longest line handed to parsePattern
MaxInputLen == 7

\* main.go:107: the size of the read buffer.  Every file of the model is
\* shorter, so a read returns the rest of the file or, as a short read, less
chunkSize == 4096

\* characters of a pattern line: hex digits in both cases, the "x" of "0x"
\* (also the one character that is no hex digit), and white space
Chars == {"0", "a", "A", "x", " "}
\* characters typed at the pattern prompt of main
PromptChars == {"a", " "}
\* bytes a file can hold
DataBytes == {0, 170}

VARIABLES
    pc,         \* position of main
    files,      \* the file list (a file is named by its index)
    pattern,    \* the parsed pattern
    fi,         \* index of the file of the current loop iteration
    offset,     \* cumulative offset counter of the current file
    opened,     \* file handles that are open
    deferred,   \* stack of deferred file.Close() calls of main
    log,        \* console output, oldest first
    data,       \* bytes the reads of the current file returned so far
    cuts,       \* offsets at which a read of the current file ended
    lastRead,   \* outcome of the latest read of the current file
    nReads,     \* number of reads issued on the current file
    input,      \* a line of text handed to parsePattern
    result      \* what parsePattern returned for it

vars == <<pc, files, pattern, fi, offset, opened, deferred, log, data, cuts,
          lastRead, nReads, input, result>>

mainVars == <<pc, files, pattern, fi, offset, opened, deferred, log, data,
              cuts, lastRead, nReads>>

Min(a, b) == IF a < b THEN a ELSE b

(***************************************************************************)
(* findPattern (main.go:15-26)                                             *)
(***************************************************************************)
RECURSIVE findFrom(_, _, _)
findFrom(d, p, i) ==
    IF i > Len(d) - Len(p) THEN <<>>
    ELSE (IF SubSeq(d, i + 1, i + Len(p)) = p THEN <<i>> ELSE <<>>)
         \o findFrom(d, p, i + 1)

\* a search that resumes after the end of each match
RECURSIVE findSkipping(_, _, _)
findSkipping(d, p, i) ==
    IF i > Len(d) - Len(p) THEN <<>>
    ELSE IF SubSeq(d, i + 1, i + Len(p)) = p
         THEN <<i>> \o findSkipping(d, p, i + (IF Len(p) = 0 THEN 1 ELSE Len(p)))
         ELSE findSkipping(d, p, i + 1)

findPatternNoOverlap(d, p) == findSkipping(d, p, 0)

findPattern(d, p) == findFrom(d, p, 0)

(***************************************************************************)
(* Library functions parsePattern and main call.                           *)
(***************************************************************************)
IsHex(c) == c \in {"0", "a", "A"}

HexVal(c) == IF c = "0" THEN 0 ELSE 10

\* hex.DecodeString: the bytes decoded before the first error, and whether
\* there was an error (a character that is no hex digit, or an odd length)
RECURSIVE hexDecodeFrom(_, _)
hexDecodeFrom(s, j) ==
    IF j + 1 > Len(s)
    THEN [err |-> j <= Len(s), bytes |-> <<>>]
    ELSE IF ~IsHex(s[j]) \/ ~IsHex(s[j + 1])
         THEN [err |-> TRUE, bytes |-> <<>>]
         ELSE LET rest == hexDecodeFrom(s, j + 2)
              IN  [err |-> rest.err,
                   bytes |-> <<16 * HexVal(s[j]) + HexVal(s[j + 1])>> \o rest.bytes]

hexDecodeString(s) == hexDecodeFrom(s, 1)

\* strings.Fields: the maximal runs of characters that are not white space
RECURSIVE fieldsFrom(_, _, _)
fieldsFrom(s, i, cur) ==
    IF i > Len(s) THEN (IF cur = <<>> THEN <<>> ELSE <<cur>>)
    ELSE IF s[i] = " "
         THEN (IF cur = <<>> THEN <<>> ELSE <<cur>>) \o fieldsFrom(s, i + 1, <<>>)
         ELSE fieldsFrom(s, i + 1, Append(cur, s[i]))

Fields(s) == fieldsFrom(s, 1, <<>>)

\* a parser that keeps the prefix on the token
TrimPrefixNever(s) == s

\* strings.TrimPrefix(part, "0x")
TrimPrefix0x(s) ==
    IF Len(s) >= 2 /\ s[1] = "0" /\ s[2] = "x" THEN SubSeq(s, 3, Len(s)) ELSE s

\* strings.TrimSpace
RECURSIVE TrimSpace(_)
TrimSpace(s) ==
    IF s = <<>> THEN s
    ELSE IF s[1] = " " THEN TrimSpace(Tail(s))
    ELSE IF s[Len(s)] = " " THEN TrimSpace(SubSeq(s, 1, Len(s) - 1))
    ELSE s

(***************************************************************************)
(* parsePattern (main.go:29-50)                                            *)
(***************************************************************************)
TokenOk(part) ==
    LET b == hexDecodeString(TrimPrefix0x(part))
    IN  ~b.err /\ Len(b.bytes) = 1

TokenByte(part) == hexDecodeString(TrimPrefix0x(part)).bytes[1]

parsePattern(s) ==
    LET whole == hexDecodeString(s)
        parts == Fields(s)
    IN  IF ~whole.err THEN [ok |-> TRUE, bytes |-> whole.bytes]
        ELSE IF \A i \in DOMAIN parts : TokenOk(parts[i])
             THEN [ok |-> TRUE, bytes |-> [i \in DOMAIN parts |-> TokenByte(parts[i])]]
             ELSE [ok |-> FALSE, bytes |-> <<>>]

(***************************************************************************)
(* Console output                                                          *)
(***************************************************************************)
Ev(kind, f, o) == <<kind, f, o>>

\* a scanner that carries the last Len(p)-1 bytes of the previous blocks over
MatchesCarryOver(prev, block, p, off) ==
    LET keep == IF Len(p) = 0 THEN 0 ELSE Min(Len(p) - 1, Len(prev))
        window == SubSeq(prev, Len(prev) - keep + 1, Len(prev)) \o block
        positions == findPattern(window, p)
    IN  [i \in DOMAIN positions |-> off - keep + positions[i]]

\* main.go:121-124: search the block just read, report offset+pos for each
Matches(prev, block, p, off) ==
    LET positions == findPattern(block, p)
    IN  [i \in DOMAIN positions |-> off + positions[i]]

\* a counter advanced by the nominal chunk size
NextOffsetNominal(off, n) == off + chunkSize

\* main.go:127
NextOffset(off, n) == off + n

Blocks(n) == [1..n -> DataBytes]

Lines(chars, maxLen) == UNION {[1..n -> chars] : n \in 0..maxLen}

(***************************************************************************)
(* main (main.go:52-135)                                                   *)
(***************************************************************************)
MainInit ==
    /\ pc = "files"
    /\ files = <<>>
    /\ pattern = <<>>
    /\ fi = 0
    /\ offset = 0
    /\ opened = {}
    /\ deferred = <<>>
    /\ log = <<>>
    /\ data = <<>>
    /\ cuts = {}
    /\ lastRead = "none"
    /\ nReads = 0

Init ==
    /\ MainInit
    /\ input = <<>>
    /\ result = [done |-> FALSE, ok |-> FALSE, bytes |-> <<>>]

\* main.go:57-69: the file list is read; an empty list ends the run
EnterFiles ==
    /\ pc = "files"
    /\ \E n \in 0..MaxFiles :
         /\ files' = [i \in 1..n |-> i]
         /\ IF n = 0
            THEN /\ log' = Append(log, Ev("nofiles", 0, 0))
                 /\ pc' = "done"
            ELSE /\ log' = log
                 /\ pc' = "prompt"
    /\ UNCHANGED <<pattern, fi, offset, opened, deferred, data, cuts,
                   lastRead, nReads, input, result>>

\* main.go:73-85: a line that parses becomes the pattern
PatternAccepted ==
    /\ pc = "prompt"
    /\ \E line \in Lines(PromptChars, MaxInputLen) :
         LET r == parsePattern(TrimSpace(line))
         IN  /\ r.ok
             /\ pattern' = r.bytes
    /\ pc' = "loop"
    /\ fi' = 1
    /\ UNCHANGED <<files, offset, opened, deferred, log, data, cuts,
                   lastRead, nReads, input, result>>

\* main.go:80-83: a line that does not parse is asked for again
PatternRejected ==
    /\ pc = "prompt"
    /\ \E line \in Lines(PromptChars, MaxInputLen) :
         ~parsePattern(TrimSpace(line)).ok
    /\ UNCHANGED vars

\* main.go:88-96: the file does not exist
FileMissing ==
    /\ pc = "loop"
    /\ fi <= Len(files)
    /\ log' = log \o <<Ev("start", fi, 0), Ev("missing", fi, 0)>>
    /\ fi' = fi + 1
    /\ UNCHANGED <<pc, files, pattern, offset, opened, deferred, data, cuts,
                   lastRead, nReads, input, result>>

\* main.go:88-103: os.Open fails
OpenFails ==
    /\ pc = "loop"
    /\ fi <= Len(files)
    /\ log' = log \o <<Ev("start", fi, 0), Ev("openerr", fi, 0)>>
    /\ fi' = fi + 1
    /\ UNCHANGED <<pc, files, pattern, offset, opened, deferred, data, cuts,
                   lastRead, nReads, input, result>>

\* main.go:88-108: the file is opened, its Close deferred to the return of
\* main, and the offset counter of this iteration starts at 0
OpenOk ==
    /\ pc = "loop"
    /\ fi <= Len(files)
    /\ log' = Append(log, Ev("start", fi, 0))
    /\ opened' = opened \cup {fi}
    /\ deferred' = <<fi>> \o deferred
    /\ offset' = 0
    /\ data' = <<>>
    /\ cuts' = {}
    /\ lastRead' = "none"
    /\ nReads' = 0
    /\ pc' = "read"
    /\ UNCHANGED <<files, pattern, fi, input, result>>

\* main.go:110-127: a read returns n > 0 bytes
ReadData ==
    /\ pc = "read"
    /\ \E n \in 1..Min(chunkSize, MaxFileLen - Len(data)) :
         \E block \in Blocks(n) :
            LET found == Matches(data, block, pattern, offset)
            IN  /\ log' = log \o [i \in DOMAIN found |-> Ev("match", fi, found[i])]
                /\ offset' = NextOffset(offset, n)
                /\ data' = data \o block
                /\ cuts' = cuts \cup {Len(data) + n}
    /\ lastRead' = "data"
    /\ nReads' = nReads + 1
    /\ UNCHANGED <<pc, files, pattern, fi, opened, deferred, input, result>>

\* an end of stream that does not leave the read loop
ReadEOFNoBreak ==
    /\ pc = "read"
    /\ lastRead' = "eof"
    /\ nReads' = nReads + 1
    /\ UNCHANGED <<pc, files, pattern, fi, offset, opened, deferred, log, data,
                   cuts, input, result>>

\* main.go:111-118: a read returns no bytes (end of stream)
ReadEOF ==
    /\ pc = "read"
    /\ lastRead' = "eof"
    /\ nReads' = nReads + 1
    /\ pc' = "after"
    /\ UNCHANGED <<files, pattern, fi, offset, opened, deferred, log, data,
                   cuts, input, result>>

\* a read error that ends main
ReadErrorFatal ==
    /\ pc = "read"
    /\ log' = Append(log, Ev("readerr", fi, 0))
    /\ lastRead' = "err"
    /\ nReads' = nReads + 1
    /\ opened' = {}
    /\ deferred' = <<>>
    /\ pc' = "done"
    /\ UNCHANGED <<files, pattern, fi, offset, data, cuts, input, result>>

\* main.go:111-115: a read fails with an error other than io.EOF
ReadError ==
    /\ pc = "read"
    /\ log' = Append(log, Ev("readerr", fi, 0))
    /\ lastRead' = "err"
    /\ nReads' = nReads + 1
    /\ pc' = "after"
    /\ UNCHANGED <<files, pattern, fi, offset, opened, deferred, data, cuts,
                   input, result>>

\* a loop iteration that ends silently
CompletedSilent ==
    /\ pc = "after"
    /\ fi' = fi + 1
    /\ offset' = 0
    /\ data' = <<>>
    /\ cuts' = {}
    /\ lastRead' = "none"
    /\ nReads' = 0
    /\ pc' = "loop"
    /\ UNCHANGED <<files, pattern, opened, deferred, log, input, result>>

\* main.go:129-130: the completion line; the iteration ends, and with it the
\* scope of its offset counter; the loop goes on to the next file
Completed ==
    /\ pc = "after"
    /\ log' = Append(log, Ev("completed", fi, 0))
    /\ fi' = fi + 1
    /\ offset' = 0
    /\ data' = <<>>
    /\ cuts' = {}
    /\ lastRead' = "none"
    /\ nReads' = 0
    /\ pc' = "loop"
    /\ UNCHANGED <<files, pattern, opened, deferred, input, result>>

\* main.go:88,133: the list is exhausted
Finish ==
    /\ pc = "loop"
    /\ fi > Len(files)
    /\ log' = Append(log, Ev("searchcomplete", 0, 0))
    /\ pc' = "wait"
    /\ UNCHANGED <<files, pattern, fi, offset, opened, deferred, data, cuts,
                   lastRead, nReads, input, result>>

\* main.go:134-135: main returns and the deferred Close calls run
Exit ==
    /\ pc = "wait"
    /\ opened' = opened \ {deferred[i] : i \in DOMAIN deferred}
    /\ deferred' = <<>>
    /\ pc' = "done"
    /\ UNCHANGED <<files, pattern, fi, offset, log, data, cuts, lastRead,
                   nReads, input, result>>

ScanNext ==
    \/ FileMissing
    \/ OpenFails
    \/ OpenOk
    \/ ReadData
    \/ ReadEOF
    \/ ReadError
    \/ Completed
    \/ Finish
    \/ Exit

Next ==
    \/ EnterFiles
    \/ PatternAccepted
    \/ PatternRejected
    \/ ScanNext

Spec == Init /\ [][Next]_vars

\* the program keeps running: a blocking read returns, a step that can be
\* taken is taken
FairSpec == Spec /\ WF_vars(ScanNext)

(***************************************************************************)
(* parsePattern applied to every line of at most MaxInputLen characters    *)
(***************************************************************************)
TypeChar ==
    /\ ~result.done
    /\ Len(input) < MaxInputLen
    /\ \E c \in Chars : input' = Append(input, c)
    /\ UNCHANGED <<result, mainVars>>

Parse ==
    /\ ~result.done
    /\ result' = [done |-> TRUE, ok |-> parsePattern(input).ok,
                  bytes |-> parsePattern(input).bytes]
    /\ UNCHANGED <<input, mainVars>>

ParseNext == TypeChar \/ Parse

ParseSpec == Init /\ [][ParseNext]_vars

(***************************************************************************)
(* What the claims speak about                                             *)
(***************************************************************************)
IsMatchOf(f, e) == e[1] = "match" /\ e[2] = f

\* the offsets reported for file f, in the order they were reported
Reported(f) ==
    LET idx == {i \in DOMAIN log : IsMatchOf(f, log[i])}
        nth[k \in 1..Cardinality(idx)] ==
            CHOOSE i \in idx : Cardinality({j \in idx : j < i}) = k - 1
    IN  [k \in 1..Cardinality(idx) |-> log[nth[k]][3]]

ReportedSet(f) == {log[i][3] : i \in {j \in DOMAIN log : IsMatchOf(f, log[j])}}

\* D[i..i+len(P)) = P
OccursAt(D, P, i) ==
    /\ i >= 0
    /\ i + Len(P) <= Len(D)
    /\ \A k \in 1..Len(P) : D[i + k] = P[k]

Occurrences(D, P) == {i \in 0..Len(D) : OccursAt(D, P, i)}

\* the occurrence at i starts before a block boundary and ends after it
Straddles(i) == \E c \in cuts : i < c /\ c < i + Len(pattern)

\* where the block that ends at c starts
BlockStart(c) ==
    LET before == {d \in cuts : d < c}
    IN  IF before = {} THEN 0 ELSE CHOOSE d \in before : \A e \in before : e <= d

\* occurrences that lie inside one block
InBlock(i) == \E c \in cuts : BlockStart(c) <= i /\ i + Len(pattern) <= c

Scanning == pc \in {"read", "after"}

InLog(e) == \E i \in DOMAIN log : log[i] = e

(***************************************************************************)
(* C1  Exhaustiveness: for a non-empty pattern, whenever no occurrence of  *)
(* the pattern in the bytes read from the file spans two blocks, the set   *)
(* of offsets reported for the file is exactly the set of all i with       *)
(* D[i..i+len(P)) = P, overlapping occurrences included.                   *)
(***************************************************************************)
Exhaustive ==
    (/\ Scanning
     /\ Len(pattern) > 0
     /\ \A i \in Occurrences(data, pattern) : ~Straddles(i))
    => ReportedSet(fi) = Occurrences(data, pattern)

\* AA in AAA, read as one block: the overlapping occurrences 0 and 1
ExhaustiveWitness ==
    /\ pc = "after"
    /\ lastRead = "eof"
    /\ pattern = <<170, 170>>
    /\ data = <<170, 170, 170>>
    /\ cuts = {3}
    /\ Reported(fi) = <<0, 1>>

\* what C2 says of the counter and of one read step
CounterIsBytesRead == Scanning => offset = Len(data) /\ (nReads = 0 => offset = 0)

BlockStep == pc = "read" /\ lastRead' = "data" /\ nReads' = nReads + 1

ReportedInBlock ==
    BlockStep =>
        LET n == Len(data') - Len(data)
            block == SubSeq(data', Len(data) + 1, Len(data'))
        IN  /\ n >= 1
            /\ offset' = offset + n
            /\ \A i \in (Len(log) + 1)..Len(log') :
                 /\ IsMatchOf(fi, log'[i])
                 /\ OccursAt(block, pattern, log'[i][3] - offset)

(***************************************************************************)
(* C2  Absolute offsets: while a file is scanned the offset counter equals *)
(* the number of bytes all earlier reads of that file returned (0 before   *)
(* the first), it never decreases, and every offset a read step reports is *)
(* the counter at the start of that block plus the index of a match inside *)
(* the block.                                                              *)
(***************************************************************************)
AbsoluteOffsets ==
    /\ []CounterIsBytesRead
    /\ [][ReportedInBlock]_vars
    /\ [][(Scanning /\ Scanning') => offset' >= offset]_vars

\* a short first read of one byte, then a match at index 0 of the second block
AbsoluteOffsetsWitness ==
    /\ pc = "read"
    /\ nReads = 2
    /\ cuts = {1, 3}
    /\ pattern = <<170>>
    /\ data = <<0, 170, 0>>
    /\ Reported(fi) = <<1>>

\* what C3 says of the output and of the reads after a failed read
FailedBefore(f) == \E g \in 1..(f - 1) : InLog(Ev("readerr", g, 0))

FailureIsolated ==
    /\ lastRead = "err" =>
         /\ pc = "after"
         /\ log[Len(log)] = Ev("readerr", fi, 0)
    /\ \A i \in DOMAIN log : log[i][1] = "readerr" =>
         /\ i < Len(log) => log[i + 1] = Ev("completed", log[i][2], 0)
         /\ \A j \in (i + 1)..Len(log) : log[j][2] # log[i][2] \/ log[j][1] = "completed"
    /\ pc \in {"wait", "done"} =>
         \A f \in 1..Len(files) : InLog(Ev("start", f, 0))
    /\ (Scanning /\ FailedBefore(fi)) =>
         /\ offset = Len(data)
         /\ ReportedSet(fi) = {i \in Occurrences(data, pattern) : InBlock(i)}
    /\ (pc \in {"wait", "done"} /\ Len(files) > 0) => InLog(Ev("searchcomplete", 0, 0))

\* after a failed read no read is issued on that file
NoReadAfterError == lastRead = "err" => (nReads' = nReads \/ nReads' = 0)

(***************************************************************************)
(* C3  Per-file isolation: a read error is reported for the file it hit,   *)
(* ends the reads of that file (the only later output about the file is    *)
(* its completion line), and does not end the run: every file of the list  *)
(* is started, and a file scanned after the failed one has its counter     *)
(* start at 0 and all its matches inside a block reported.                 *)
(***************************************************************************)
Isolation == []FailureIsolated /\ [][NoReadAfterError]_vars

\* the first file fails after a match at 1, the second is scanned to its end
IsolationWitness ==
    /\ pc = "after"
    /\ fi = 2
    /\ lastRead = "eof"
    /\ InLog(Ev("match", 1, 1))
    /\ InLog(Ev("readerr", 1, 0))
    /\ pattern = <<170>>
    /\ data = <<170, 0, 170>>
    /\ Reported(2) = <<0, 2>>

(***************************************************************************)
(* C4  The parser never returns success with a zero-length pattern.        *)
(***************************************************************************)
NonEmptyOrFail == (result.done /\ result.ok) => Len(result.bytes) > 0

(***************************************************************************)
(* C5  Scoped release: a file handle is closed when control leaves the     *)
(* scan of its file, so no handle is open between two files or after the   *)
(* last one, and at most one handle is open at any time.                   *)
(***************************************************************************)
ScopedRelease ==
    /\ Cardinality(opened) <= 1
    /\ pc \in {"loop", "wait", "done"} => opened = {}

(***************************************************************************)
(* Notification bracketing and order, stated line by line.  `closers'      *)
(* are the kinds of line that end the turn of a file.                      *)
(*   - The start line of file 1 is the first line; the start line of file  *)
(*     f+1 comes right after the line that ends the turn of file f.  So    *)
(*     the files are started one at a time and in the order of the list.   *)
(*   - A match of f comes right after the start line of f or another match *)
(*     of f, and the completion line of f right after the start line, a    *)
(*     match or the read error of f.  So the matches of f lie between its  *)
(*     start line and its completion line.                                 *)
(*   - "Search complete" comes right after the line that ends the turn of  *)
(*     the last file.                                                      *)
(*   - There is a start line for every file whose turn has begun, and when *)
(*     main is between two files or past the last one, the latest line     *)
(*     ends a turn.                                                        *)
(***************************************************************************)
LineInPlace(i, closers) ==
    LET kind == log[i][1]
        f == log[i][2]
        pkind == IF i = 1 THEN "none" ELSE log[i - 1][1]
        pf == IF i = 1 THEN 0 ELSE log[i - 1][2]
    IN  IF kind = "start"
        THEN (f = 1 /\ i = 1) \/ (f = pf + 1 /\ pkind \in closers)
        ELSE IF kind = "match" THEN pf = f /\ pkind \in {"start", "match"}
        ELSE IF kind = "readerr" THEN pf = f /\ pkind \in {"start", "match"}
        ELSE IF kind = "completed" THEN pf = f /\ pkind \in {"start", "match", "readerr"}
        ELSE IF kind \in {"missing", "openerr"} THEN pf = f /\ pkind = "start"
        ELSE IF kind = "searchcomplete" THEN pf = Len(files) /\ pkind \in closers
        ELSE i = 1 /\ Len(files) = 0

\* the files whose turn has begun
Begun == {f \in 1..Len(files) : f < fi \/ (f = fi /\ pc \in {"read", "after"})}

Bracketed(closers) ==
    /\ \A i \in DOMAIN log : LineInPlace(i, closers)
    /\ Cardinality({i \in DOMAIN log : log[i][1] = "start"}) = Cardinality(Begun)
    /\ (pc \in {"loop", "wait", "done"} /\ log # <<>>) =>
           log[Len(log)][1] \in closers \cup {"searchcomplete", "nofiles"}
    /\ pc \in {"wait", "done"} => Begun = 1..Len(files)

\* the output only grows, and the loop takes the files one by one
OneAtATime == [][/\ Len(log') >= Len(log)
                 /\ SubSeq(log', 1, Len(log)) = log
                 /\ fi' = fi \/ fi' = fi + 1]_vars

(***************************************************************************)
(* C6  Notification bracketing and order: files are processed in the      *)
(* order supplied; every file of the list gets a start line that is        *)
(* followed by its completion line before the start line of the next      *)
(* file; every match of a file lies between the two.                       *)
(***************************************************************************)
BracketedAll == Bracketed({"completed"})

(***************************************************************************)
(* C6 (amended)  Files are processed one at a time in the order supplied   *)
(* and a start line is printed for every file.  For every file that exists *)
(* and is opened, the start line is followed by the completion line of     *)
(* that file before the start line of the next file; a file that is        *)
(* missing or cannot be opened gets an error line right after its start    *)
(* line, no match and no completion line.  Every match of a file lies      *)
(* between its start line and its completion line.                         *)
(***************************************************************************)
BracketedOpened ==
    /\ []Bracketed({"completed", "missing", "openerr"})
    /\ OneAtATime

\* a missing first file, then a second file with a match, both turns over
BracketedWitness ==
    /\ pc = "wait"
    /\ log = <<Ev("start", 1, 0), Ev("missing", 1, 0), Ev("start", 2, 0),
               Ev("match", 2, 0), Ev("completed", 2, 0),
               Ev("searchcomplete", 0, 0)>>

(***************************************************************************)
(* C7  Chunk-boundary blind spot: for a non-empty pattern, an occurrence   *)
(* that starts in one block and ends in a later one is never reported.     *)
(***************************************************************************)
BlindSpot ==
    (Scanning /\ Len(pattern) > 0) =>
        \A i \in Occurrences(data, pattern) : Straddles(i) => i \notin ReportedSet(fi)

\* AA AA read as two blocks of one byte: the occurrence at 0 is not reported
BlindSpotWitness ==
    /\ pc = "after"
    /\ lastRead = "eof"
    /\ pattern = <<170, 170>>
    /\ data = <<170, 170>>
    /\ cuts = {1, 2}
    /\ Reported(fi) = <<>>

\* the tokens of a line, read off the line itself
IsHexString(s) == Len(s) % 2 = 0 /\ \A i \in DOMAIN s : IsHex(s[i])

\* where the tokens of s start, and where the token that starts at i ends
TokenStarts(s) == {i \in DOMAIN s : s[i] # " " /\ (i = 1 \/ s[i - 1] = " ")}

TokenEnd(s, i) ==
    CHOOSE j \in i..Len(s) :
        /\ \A k \in i..j : s[k] # " "
        /\ j = Len(s) \/ s[j + 1] = " "

Tokens(s) ==
    LET st == TokenStarts(s)
        nth[k \in 1..Cardinality(st)] ==
            CHOOSE i \in st : Cardinality({j \in st : j < i}) = k - 1
    IN  [k \in 1..Cardinality(st) |-> SubSeq(s, nth[k], TokenEnd(s, nth[k]))]

Unprefixed(t) == IF Len(t) >= 2 /\ SubSeq(t, 1, 2) = <<"0", "x">> THEN SubSeq(t, 3, Len(t)) ELSE t

TwoHexDigits(t) == Len(t) = 2 /\ IsHex(t[1]) /\ IsHex(t[2])

ByteOf(t) == 16 * HexVal(t[1]) + HexVal(t[2])

\* the tokens of s without their prefixes, one blank between two tokens
RECURSIVE JoinUnprefixed(_)
JoinUnprefixed(toks) ==
    IF toks = <<>> THEN <<>>
    ELSE IF Len(toks) = 1 THEN Unprefixed(toks[1])
    ELSE Unprefixed(toks[1]) \o <<" ">> \o JoinUnprefixed(Tail(toks))

(***************************************************************************)
(* C8  Tokenized-byte mode: a line that is not an even-length string of    *)
(* hex digits is split on white space; the parse succeeds iff every token, *)
(* after an optional leading "0x" is removed, is exactly two hex digits;   *)
(* on success there is one byte per token, in token order, and the same    *)
(* tokens without their "0x" prefixes parse to the same bytes; on failure  *)
(* no bytes are returned.                                                  *)
(***************************************************************************)
TokenMode ==
    (result.done /\ ~IsHexString(input)) =>
        LET toks == Tokens(input)
            good == \A k \in DOMAIN toks : TwoHexDigits(Unprefixed(toks[k]))
        IN  /\ result.ok <=> good
            /\ result.ok =>
                 /\ result.bytes = [k \in DOMAIN toks |-> ByteOf(Unprefixed(toks[k]))]
                 /\ parsePattern(JoinUnprefixed(toks)).ok
                 /\ parsePattern(JoinUnprefixed(toks)).bytes = result.bytes
            /\ ~result.ok => result.bytes = <<>>

\* a prefixed and an unprefixed token
TokenModeWitness ==
    /\ result.done
    /\ input = <<"0", "x", "A", "0", " ", "a", "a">>
    /\ result.ok
    /\ result.bytes = <<160, 170>>

\* what C9 says of the reads, and a bound on the steps left
EndIsLastRead == lastRead \in {"eof", "err"} => (nReads' = nReads \/ nReads' = 0)

InLoop == pc \in {"loop", "read", "after"}

\* the steps one file can take: open, MaxFileLen reads of data, the last
\* read, the completion line
PerFile == MaxFileLen + 3

\* an upper bound on the steps left before "Search complete"
Rank ==
    IF pc = "loop" THEN (Len(files) - fi + 1) * PerFile + 1
    ELSE IF pc = "read" THEN (Len(files) - fi) * PerFile + (MaxFileLen - Len(data)) + 3
    ELSE IF pc = "after" THEN (Len(files) - fi) * PerFile + 2
    ELSE 0

(***************************************************************************)
(* C9  Termination: a read that returns no bytes or fails is the last read *)
(* issued on its file, a file takes at most one read more than it has      *)
(* bytes, and the loop over the files reaches the "Search complete" step:  *)
(* until then a step is always possible, and every step lowers Rank, a     *)
(* natural number, so no run takes more than Rank steps to get there.      *)
(***************************************************************************)
Terminates ==
    /\ [](nReads <= Len(data) + 1)
    /\ [][EndIsLastRead]_vars
    /\ [](InLoop => Rank > 0 /\ ENABLED ScanNext)
    /\ [][InLoop => Rank' < Rank]_vars

\* the same under fairness: once the loop has begun, "Search complete" comes
ScanReachesComplete == (pc = "loop") ~> (pc = "wait")

\* the run is at "Search complete" after an end of stream and a read error
TerminatesWitness ==
    /\ pc = "wait"
    /\ InLog(Ev("match", 1, 2))
    /\ InLog(Ev("completed", 1, 0))
    /\ InLog(Ev("readerr", 2, 0))
    /\ InLog(Ev("completed", 2, 0))

(***************************************************************************)
(* C10  Ordered, duplicate-free output: for any pattern parsePattern can   *)
(* return, the offsets reported for one file are strictly increasing and   *)
(* every reported offset o has o + len(pattern) <= bytes read so far.      *)
(***************************************************************************)
OrderedOutput ==
    Scanning =>
        LET r == Reported(fi)
        IN  /\ \A i, j \in DOMAIN r : i < j => r[i] < r[j]
            /\ \A i \in DOMAIN r : r[i] + Len(pattern) <= Len(data)

====
